---- MODULE Spec2Model ----
(***************************************************************************)
(* SaliencyInterpreter (allennlp/interpret/saliency_interpreters/          *)
(* saliency_interpreter.py): the three operations of the interpreter over  *)
(* a predictor and a dataset, as a state machine whose positions are the   *)
(* calls the operations make into their collaborators.                     *)
(*                                                                         *)
(* Strings are sequences of tokens: a word without underscore ("instance", *)
(* "grad", "input"), the underscore "_", or a decimal digit.               *)
(***************************************************************************)
EXTENDS Integers, Sequences, FiniteSets, TLC

\* ---- bounds ------------------------------------------------------------
MaxD == 5
MaxLabels == 2
MaxB == 3

VARIABLES
    impl,               \* the interpreter class: base, or a subclass and its key name
    op,                 \* the operation the caller invoked
    pc,                 \* position inside the operation
    inputs,             \* argument `inputs` of saliency_interpret_from_json
    data,               \* argument `data` of saliency_interpret_dataset
    batch_size,         \* argument `batch_size`
    xs,                 \* the range the `batches` generator walks
    idx,                \* enumerate index of the batch in progress
    batch,              \* list(batch)
    batch_outputs,      \* result of forward_on_instances
    labeled_instances,  \* labeled instances (both operations)
    batch_interpr,      \* result of saliency_interpret_instances for the batch
    interpretations,    \* the running merged dict
    status,             \* "idle", "running", "returned" or "raised"
    result,             \* the value returned to the caller
    thrown,             \* the exception as raised where it originated
    error,              \* the exception as the caller receives it
    json_calls,         \* number of json_to_labeled_instances calls
    forward_calls,      \* arguments of the forward_on_instances calls, in order
    p2l_calls,          \* instances passed to predictions_to_labeled_instances
    interpret_calls     \* arguments of the saliency_interpret_instances calls

vars == <<impl, op, pc, inputs, data, batch_size, xs, idx, batch, batch_outputs,
          labeled_instances, batch_interpr, interpretations, status, result,
          thrown, error, json_calls, forward_calls, p2l_calls, interpret_calls>>

\* ---- small helpers -----------------------------------------------------
Min(a, b) == IF a < b THEN a ELSE b

EmptyMap == <<>>

NoError == [by |-> "none", kind |-> "none"]

Exc(by, kind) == [by |-> by, kind |-> kind]

Digit == <<"0", "1", "2", "3", "4", "5", "6", "7", "8", "9">>

DigitTokens == {Digit[i] : i \in 1..10}

\* ---- strings -----------------------------------------------------------
\* str(n) inside the f-string, n >= 0
RECURSIVE IntToStr(_)
IntToStr(n) ==
    IF n < 10 THEN <<Digit[n + 1]>>
    ELSE Append(IntToStr(n \div 10), Digit[(n % 10) + 1])

DigitValue(t) == (CHOOSE i \in 1..10 : Digit[i] = t) - 1

IsDigits(s) == Len(s) > 0 /\ \A i \in 1..Len(s) : s[i] \in DigitTokens

\* int(key_idx) for a digit string
RECURSIVE StrToInt(_)
StrToInt(s) ==
    IF Len(s) = 0 THEN 0
    ELSE 10 * StrToInt(SubSeq(s, 1, Len(s) - 1)) + DigitValue(s[Len(s)])

\* key.split('_'): the pieces between underscores, empty pieces kept
RECURSIVE Split(_)
Split(s) ==
    IF \A i \in 1..Len(s) : s[i] # "_" THEN <<s>>
    ELSE LET p == CHOOSE i \in 1..Len(s) :
                      s[i] = "_" /\ \A j \in 1..(i - 1) : s[j] # "_"
         IN  <<SubSeq(s, 1, p - 1)>> \o Split(SubSeq(s, p + 1, Len(s)))

\* f'{key_name}_{n}'
FormatKey(key_name, n) == key_name \o <<"_">> \o IntToStr(n)

\* ---- dicts -------------------------------------------------------------
Put(m, k, v) == [x \in (DOMAIN m) \cup {k} |-> IF x = k THEN v ELSE m[x]]

RECURSIVE ToMap(_)
ToMap(items) ==
    IF items = <<>> THEN EmptyMap
    ELSE Put(ToMap(SubSeq(items, 1, Len(items) - 1)),
             items[Len(items)][1], items[Len(items)][2])

\* ---- collaborators -----------------------------------------------------
Instance(i, n) == [id |-> i, labels |-> n]

Datasets ==
    UNION { { [i \in 1..d |-> Instance(i, f[i])] : f \in [1..d -> 1..MaxLabels] }
            : d \in 0..MaxD }

BatchSizes == (0 - MaxB)..MaxB

LabeledInstance(i, l) == [inst |-> i, label |-> l]

\* Model.forward_on_instances: one output per instance, in order
ForwardOnInstances(b) == [i \in 1..Len(b) |-> [of |-> b[i].id, labels |-> b[i].labels]]

\* Predictor.predictions_to_labeled_instances: one labeled instance per label
PredictionsToLabeledInstances(instance, outputs) ==
    [l \in 1..outputs.labels |-> LabeledInstance(instance.id, l)]

\* Predictor.json_to_labeled_instances: the input names its candidate labels
JsonToLabeledInstances(json) ==
    [l \in 1..json.labels |-> LabeledInstance(0, l)]

Tensor(li) == [type |-> "tensor", of |-> li]

SanitizeValue(v) == [type |-> "list", of |-> v.of]

\* allennlp.common.util.sanitize on a dict: keys kept, values made JSON-safe
Sanitize(m) == [k \in DOMAIN m |-> SanitizeValue(m[k])]

\* a subclass's saliency_interpret_instances: the dict items in insertion
\* order, one entry <name>_<i> per labeled instance
SubclassInterpret(name, lis) ==
    [i \in 1..Len(lis) |-> <<FormatKey(name, i - 1), Tensor(lis[i])>>]

Impls ==
    { [overridden |-> FALSE, name |-> <<>>],
      [overridden |-> TRUE, name |-> <<"instance">>],
      [overridden |-> TRUE, name |-> <<"grad", "_", "input">>] }

\* ---- the code ----------------------------------------------------------
\* variant: a loop that tests its bound after the first pass
RangeDoWhile(start, stop, step) ==
    LET n == IF step > 0
             THEN (IF stop > start THEN ((stop - start) + step - 1) \div step ELSE 1)
             ELSE (IF start > stop THEN ((start - stop) + (0 - step) - 1) \div (0 - step) ELSE 0)
    IN  [i \in 1..n |-> start + (i - 1) * step]

\* variant: a negative step counted by its magnitude
RangeAbsStep(start, stop, step) ==
    LET a == IF step < 0 THEN 0 - step ELSE step
        n == IF stop > start THEN ((stop - start) + a - 1) \div a ELSE 0
    IN  [i \in 1..n |-> start + (i - 1) * a]

\* range(start, stop, step) for step # 0, as the list of its values
Range(start, stop, step) ==
    LET n == IF step > 0
             THEN (IF stop > start THEN ((stop - start) + step - 1) \div step ELSE 0)
             ELSE (IF start > stop THEN ((start - stop) + (0 - step) - 1) \div (0 - step) ELSE 0)
    IN  [i \in 1..n |-> start + (i - 1) * step]

\* variant: the stop position included in the slice
ISliceInclusive(instances, x, stop) ==
    IF stop < x THEN <<>> ELSE SubSeq(instances, x + 1, Min(stop + 1, Len(instances)))

\* list(itertools.islice(data, x, stop)) over a re-iterable dataset
ISlice(instances, x, stop) ==
    IF stop <= x THEN <<>> ELSE SubSeq(instances, x + 1, Min(stop, Len(instances)))

\* zip(batch, batch_outputs)
Zip(a, b) == [i \in 1..Min(Len(a), Len(b)) |-> <<a[i], b[i]>>]

\* lines 51-54: extend labeled_instances pair by pair
RECURSIVE LabelAll(_)
LabelAll(pairs) ==
    IF pairs = <<>> THEN <<>>
    ELSE PredictionsToLabeledInstances(pairs[1][1], pairs[1][2]) \o LabelAll(Tail(pairs))

\* variant: the batch index used as the offset
GlobalIndexNoBatchSize(bs, i, key_idx) == i + key_idx

\* line 59: batch_size*idx + int(key_idx)
GlobalIndex(bs, i, key_idx) == bs * i + key_idx

\* lines 57-59: the merge loop; stops at the first key that raises
RECURSIVE MergeItems(_, _, _, _)
MergeItems(m, items, bs, i) ==
    IF items = <<>> THEN [err |-> NoError, map |-> m]
    ELSE LET key   == items[1][1]
             value == items[1][2]
             parts == Split(key)
         IN  IF Len(parts) # 2
             THEN [err |-> Exc("unpack", "ValueError"), map |-> m]
             ELSE IF ~IsDigits(parts[2])
             THEN [err |-> Exc("int", "ValueError"), map |-> m]
             ELSE MergeItems(
                      Put(m, FormatKey(parts[1], GlobalIndex(bs, i, StrToInt(parts[2]))), value),
                      Tail(items), bs, i)

\* variant: a base method that returns an empty dict for no instances
InterpretInstancesEmptyOk(lis) ==
    IF lis = <<>>
    THEN [raised |-> FALSE, exc |-> NoError, items |-> <<>>]
    ELSE [raised |-> TRUE,
          exc    |-> Exc("saliency_interpret_instances", "NotImplementedError"),
          items  |-> <<>>]

\* lines 63-81: the base saliency_interpret_instances
saliency_interpret_instances(lis) ==
    [raised |-> TRUE,
     exc    |-> Exc("saliency_interpret_instances", "NotImplementedError"),
     items  |-> <<>>]

\* self.saliency_interpret_instances(lis): the base method unless a subclass
\* overrides it; a subclass returns its dict or fails
InterpretOutcomes(lis) ==
    IF impl.overridden
    THEN { [raised |-> FALSE, exc |-> NoError,
            items |-> SubclassInterpret(impl.name, lis)],
           [raised |-> TRUE,
            exc |-> Exc("saliency_interpret_instances", "SubclassError"),
            items |-> <<>>] }
    ELSE { saliency_interpret_instances(lis) }

\* variant: the exception caught and the batches merged so far returned
RaiseSwallowed(e) ==
    /\ thrown' = e
    /\ error' = NoError
    /\ status' = "returned"
    /\ result' = Sanitize(interpretations)
    /\ pc' = "done"

\* an exception no frame of the operation catches: the call ends with it
Raise(e) ==
    /\ thrown' = e
    /\ error' = e
    /\ status' = "raised"
    /\ result' = EmptyMap
    /\ pc' = "done"

\* a return statement
Return(v) ==
    /\ status' = "returned"
    /\ result' = v
    /\ pc' = "done"
    /\ UNCHANGED <<thrown, error>>

Init ==
    /\ impl \in Impls
    /\ op = "none"
    /\ pc = "idle"
    /\ inputs = [labels |-> 0]
    /\ data = [instances |-> <<>>, sized |-> TRUE]
    /\ batch_size = 1
    /\ xs = <<>>
    /\ idx = 0
    /\ batch = <<>>
    /\ batch_outputs = <<>>
    /\ labeled_instances = <<>>
    /\ batch_interpr = <<>>
    /\ interpretations = EmptyMap
    /\ status = "idle"
    /\ result = EmptyMap
    /\ thrown = NoError
    /\ error = NoError
    /\ json_calls = 0
    /\ forward_calls = <<>>
    /\ p2l_calls = <<>>
    /\ interpret_calls = <<>>

\* ---- saliency_interpret_dataset ---------------------------------------
\* lines 43-45: the call, interpretations = {}, and the generator expression,
\* whose outermost iterable range(0, len(data), batch_size) is built at once
CallDataset ==
    /\ pc = "idle"
    /\ \E d \in Datasets, s \in BOOLEAN, b \in BatchSizes :
        /\ data' = [instances |-> d, sized |-> s]
        /\ batch_size' = b
        /\ op' = "dataset"
        /\ interpretations' = EmptyMap
        /\ idx' = 0
        /\ IF ~s
           THEN Raise(Exc("len", "TypeError")) /\ xs' = <<>>
           ELSE IF b = 0
           THEN Raise(Exc("range", "ValueError")) /\ xs' = <<>>
           ELSE /\ xs' = Range(0, Len(d), b)
                /\ pc' = "loop"
                /\ status' = "running"
                /\ UNCHANGED <<result, thrown, error>>
    /\ UNCHANGED <<impl, inputs, batch, batch_outputs, labeled_instances, batch_interpr,
                   json_calls, forward_calls, p2l_calls, interpret_calls>>

\* line 46 and line 48: the next batch of the generator, materialised
NextBatch ==
    /\ pc = "loop"
    /\ idx < Len(xs)
    /\ batch' = ISlice(data.instances, xs[idx + 1], xs[idx + 1] + batch_size)
    /\ pc' = "forward"
    /\ UNCHANGED <<impl, op, inputs, data, batch_size, xs, idx, batch_outputs,
                   labeled_instances, batch_interpr, interpretations, status,
                   result, thrown, error, json_calls, forward_calls, p2l_calls,
                   interpret_calls>>

\* line 61: the generator is exhausted
ReturnDataset ==
    /\ pc = "loop"
    /\ idx >= Len(xs)
    /\ Return(Sanitize(interpretations))
    /\ UNCHANGED <<impl, op, inputs, data, batch_size, xs, idx, batch, batch_outputs,
                   labeled_instances, batch_interpr, interpretations,
                   json_calls, forward_calls, p2l_calls, interpret_calls>>

\* line 49
Forward ==
    /\ pc = "forward"
    /\ forward_calls' = Append(forward_calls, batch)
    /\ \/ /\ batch_outputs' = ForwardOnInstances(batch)
          /\ pc' = "label"
          /\ UNCHANGED <<status, result, thrown, error>>
       \/ /\ Raise(Exc("forward_on_instances", "ModelError"))
          /\ UNCHANGED batch_outputs
    /\ UNCHANGED <<impl, op, inputs, data, batch_size, xs, idx, batch,
                   labeled_instances, batch_interpr, interpretations,
                   json_calls, p2l_calls, interpret_calls>>

\* lines 51-54; the predictor may fail on the f-th pair
Label ==
    /\ pc = "label"
    /\ LET pairs == Zip(batch, batch_outputs)
       IN  \/ /\ labeled_instances' = LabelAll(pairs)
              /\ p2l_calls' = p2l_calls \o [i \in 1..Len(pairs) |-> pairs[i][1].id]
              /\ pc' = "interpret"
              /\ UNCHANGED <<status, result, thrown, error>>
           \/ \E f \in 1..Len(pairs) :
              /\ labeled_instances' = LabelAll(SubSeq(pairs, 1, f - 1))
              /\ p2l_calls' = p2l_calls \o [i \in 1..f |-> pairs[i][1].id]
              /\ Raise(Exc("predictions_to_labeled_instances", "PredictorError"))
    /\ UNCHANGED <<impl, op, inputs, data, batch_size, xs, idx, batch, batch_outputs,
                   batch_interpr, interpretations, json_calls, forward_calls,
                   interpret_calls>>

\* line 56
Interpret ==
    /\ pc = "interpret"
    /\ interpret_calls' = Append(interpret_calls, labeled_instances)
    /\ \E o \in InterpretOutcomes(labeled_instances) :
        IF o.raised
        THEN Raise(o.exc) /\ UNCHANGED batch_interpr
        ELSE /\ batch_interpr' = o.items
             /\ pc' = "merge"
             /\ UNCHANGED <<status, result, thrown, error>>
    /\ UNCHANGED <<impl, op, inputs, data, batch_size, xs, idx, batch, batch_outputs,
                   labeled_instances, interpretations, json_calls, forward_calls,
                   p2l_calls>>

\* lines 57-59, then back to line 46 with the next enumerate index
Merge ==
    /\ pc = "merge"
    /\ LET r == MergeItems(interpretations, batch_interpr, batch_size, idx)
       IN  IF r.err = NoError
           THEN /\ interpretations' = r.map
                /\ idx' = idx + 1
                /\ pc' = "loop"
                /\ UNCHANGED <<status, result, thrown, error>>
           ELSE /\ interpretations' = r.map
                /\ Raise(r.err)
                /\ UNCHANGED idx
    /\ UNCHANGED <<impl, op, inputs, data, batch_size, xs, batch, batch_outputs,
                   labeled_instances, batch_interpr, json_calls, forward_calls,
                   p2l_calls, interpret_calls>>

\* ---- saliency_interpret_from_json -------------------------------------
JsonInputs == { [labels |-> n] : n \in 0..MaxLabels }

\* line 21: the call
CallFromJson ==
    /\ pc = "idle"
    /\ \E j \in JsonInputs : inputs' = j
    /\ op' = "from_json"
    /\ pc' = "json_label"
    /\ status' = "running"
    /\ UNCHANGED <<impl, data, batch_size, xs, idx, batch, batch_outputs,
                   labeled_instances, batch_interpr, interpretations, result,
                   thrown, error, json_calls, forward_calls, p2l_calls,
                   interpret_calls>>

\* line 39
JsonLabel ==
    /\ pc = "json_label"
    /\ json_calls' = json_calls + 1
    /\ \/ /\ labeled_instances' = JsonToLabeledInstances(inputs)
          /\ pc' = "json_interpret"
          /\ UNCHANGED <<status, result, thrown, error>>
       \/ /\ Raise(Exc("json_to_labeled_instances", "PredictorError"))
          /\ UNCHANGED labeled_instances
    /\ UNCHANGED <<impl, op, inputs, data, batch_size, xs, idx, batch, batch_outputs,
                   batch_interpr, interpretations, forward_calls, p2l_calls,
                   interpret_calls>>

\* variant: the result sanitized as the dataset operation does
JsonInterpretSanitized ==
    /\ pc = "json_interpret"
    /\ interpret_calls' = Append(interpret_calls, labeled_instances)
    /\ \E o \in InterpretOutcomes(labeled_instances) :
        IF o.raised THEN Raise(o.exc) ELSE Return(Sanitize(ToMap(o.items)))
    /\ UNCHANGED <<impl, op, inputs, data, batch_size, xs, idx, batch, batch_outputs,
                   labeled_instances, batch_interpr, interpretations, json_calls,
                   forward_calls, p2l_calls>>

\* line 41
JsonInterpret ==
    /\ pc = "json_interpret"
    /\ interpret_calls' = Append(interpret_calls, labeled_instances)
    /\ \E o \in InterpretOutcomes(labeled_instances) :
        IF o.raised THEN Raise(o.exc) ELSE Return(ToMap(o.items))
    /\ UNCHANGED <<impl, op, inputs, data, batch_size, xs, idx, batch, batch_outputs,
                   labeled_instances, batch_interpr, interpretations, json_calls,
                   forward_calls, p2l_calls>>

\* ---- saliency_interpret_instances, called by the user -----------------
LabeledLists == { [l \in 1..n |-> LabeledInstance(0, l)] : n \in 0..MaxLabels }

\* line 63: the call; the dispatch picks the base method or the override
CallInstances ==
    /\ pc = "idle"
    /\ op' = "instances"
    /\ \E lis \in LabeledLists :
        /\ labeled_instances' = lis
        /\ interpret_calls' = Append(interpret_calls, lis)
        /\ \E o \in InterpretOutcomes(lis) :
            IF o.raised THEN Raise(o.exc) ELSE Return(ToMap(o.items))
    /\ UNCHANGED <<impl, inputs, data, batch_size, xs, idx, batch, batch_outputs,
                   batch_interpr, interpretations, json_calls, forward_calls,
                   p2l_calls>>

Next ==
    \/ CallFromJson
    \/ JsonLabel
    \/ JsonInterpret
    \/ CallInstances
    \/ CallDataset
    \/ NextBatch
    \/ ReturnDataset
    \/ Forward
    \/ Label
    \/ Interpret
    \/ Merge

Spec == Init /\ [][Next]_vars

\* ---- properties --------------------------------------------------------
D == Len(data.instances)

CeilDiv(a, b) == (a + b - 1) \div b

RECURSIVE Flatten(_)
Flatten(ss) == IF ss = <<>> THEN <<>> ELSE ss[1] \o Flatten(Tail(ss))

Finished == pc = "done"

\* the exception came out of a collaborator or out of the per-instance operation
FailureRaised ==
    thrown.by \in {"forward_on_instances", "predictions_to_labeled_instances",
                   "json_to_labeled_instances", "saliency_interpret_instances"}

OneLabelEach == \A i \in 1..D : data.instances[i].labels = 1

InstanceKeys == impl.overridden /\ impl.name = <<"instance">>

GradInputKeys == impl.overridden /\ impl.name = <<"grad", "_", "input">>

\* a dataset call on a dataset that exposes its length, with a positive batch size
SizedDatasetCall == op = "dataset" /\ data.sized /\ batch_size >= 1

\* the k-th window (k from 0) of the dataset
Window(k) == SubSeq(data.instances, k * batch_size + 1, Min((k + 1) * batch_size, D))

\* the dict the loop of lines 46-59 builds over `instances` from batch k on
RECURSIVE MergedFrom(_, _, _, _)
MergedFrom(m, instances, bs, k) ==
    IF k * bs >= Len(instances) THEN m
    ELSE LET b   == ISlice(instances, k * bs, k * bs + bs)
             lis == LabelAll(Zip(b, ForwardOnInstances(b)))
         IN  MergedFrom(MergeItems(m, SubclassInterpret(impl.name, lis), bs, k).map,
                        instances, bs, k + 1)

\* C1: for a dataset of D >= 0 instances that each yield one labeled instance,
\* a batch size B >= 1 and a per-instance operation with local keys
\* instance_0 .. instance_(n-1), the dataset call (no collaborator failing)
\* returns exactly the D keys instance_0 .. instance_(D-1), and instance_j
\* holds the sanitized value computed for the j-th dataset instance.
C1_DenseKeysOneLabel ==
    (SizedDatasetCall /\ InstanceKeys /\ OneLabelEach /\ Finished /\ ~FailureRaised)
    => /\ status = "returned"
       /\ DOMAIN result = { FormatKey(<<"instance">>, j) : j \in 0..(D - 1) }
       /\ Cardinality(DOMAIN result) = D
       /\ \A j \in 0..(D - 1) :
            result[FormatKey(<<"instance">>, j)]
              = [type |-> "list", of |-> LabeledInstance(data.instances[j + 1].id, 1)]

C1_Witness ==
    /\ SizedDatasetCall /\ InstanceKeys /\ OneLabelEach
    /\ status = "returned"
    /\ D = 5 /\ batch_size = 2
    /\ DOMAIN result = { FormatKey(<<"instance">>, j) : j \in 0..4 }

\* C2: the returned map has one distinct entry for every labeled instance
\* produced over all batches, also when an instance expands into several
\* labeled instances.
C2_OneEntryPerLabeledInstance ==
    (SizedDatasetCall /\ InstanceKeys /\ status = "returned")
    => Cardinality(DOMAIN result) = Len(Flatten(interpret_calls))

\* C3: 5 instances, batch_size 2, local keys grad_input_<i>: the merged map
\* has exactly the keys grad_input_0 .. grad_input_4.
C3_UnderscoreNameKept ==
    (SizedDatasetCall /\ GradInputKeys /\ OneLabelEach /\ D = 5 /\ batch_size = 2
        /\ Finished /\ ~FailureRaised)
    => /\ status = "returned"
       /\ DOMAIN result = { FormatKey(<<"grad", "_", "input">>, j) : j \in 0..4 }

\* C4: a dataset that does not expose its length is accepted: the call
\* completes without error and returns the map it returns for a known-length
\* dataset of the same instances.
C4_UnsizedAccepted ==
    (op = "dataset" /\ ~data.sized /\ batch_size >= 1 /\ InstanceKeys
        /\ Finished /\ ~FailureRaised)
    => /\ status = "returned"
       /\ result = Sanitize(MergedFrom(EmptyMap, data.instances, batch_size, 0))

\* C5: whenever the base saliency_interpret_instances is invoked, with any
\* argument and from any operation, the call ends with NotImplementedError
\* and no value is returned.
C5_BaseAlwaysRaises ==
    (~impl.overridden /\ interpret_calls # <<>>)
    => /\ status = "raised"
       /\ error.kind = "NotImplementedError"
       /\ result = EmptyMap

C5_Witness ==
    /\ op = "instances" /\ ~impl.overridden
    /\ interpret_calls = << <<>> >>
    /\ status = "raised"

C7_EmptyDataset ==
    (SizedDatasetCall /\ D = 0)
    => /\ forward_calls = <<>>
       /\ p2l_calls = <<>>
       /\ interpret_calls = <<>>
       /\ status # "raised"
       /\ (Finished => status = "returned" /\ result = EmptyMap)

C7_Witness ==
    /\ SizedDatasetCall /\ D = 0 /\ ~impl.overridden
    /\ status = "returned" /\ result = EmptyMap

\* C8: a failure raised in any batch by the forward pass, by
\* predictions_to_labeled_instances or by the per-instance operation ends the
\* call: the caller receives that very exception, nothing is returned, and
\* the forward pass was run once per batch up to the failing one and no more.
C8_FailureAborts ==
    (op = "dataset" /\ FailureRaised)
    => /\ Finished
       /\ status = "raised"
       /\ error = thrown
       /\ result = EmptyMap
       /\ Len(forward_calls) = idx + 1
       /\ \A k \in 1..Len(forward_calls) : forward_calls[k] = Window(k - 1)
       /\ Len(interpret_calls) <= idx + 1

C8_Witness ==
    /\ op = "dataset" /\ thrown.by = "forward_on_instances"
    /\ status = "raised"
    /\ idx >= 1 /\ interpretations # EmptyMap
    /\ idx + 1 < Len(xs)

\* C9: the forward pass is invoked on window after window in increasing
\* index, the k-th call with the instances at positions k*B .. min((k+1)*B, D)-1,
\* a batch being merged before the next one is cut; a call that returns has
\* made exactly ceil(D/B) forward calls, which partition the dataset.
C9_Windows ==
    SizedDatasetCall
    => /\ \A k \in 1..Len(forward_calls) :
            /\ forward_calls[k] = Window(k - 1)
            /\ Len(forward_calls[k]) <= batch_size
            /\ (k < CeilDiv(D, batch_size) => Len(forward_calls[k]) = batch_size)
       /\ Len(forward_calls) <= CeilDiv(D, batch_size)
       /\ Len(forward_calls) \in {idx, idx + 1}
       /\ (pc = "forward" => Len(forward_calls) = idx /\ Len(interpret_calls) = idx)
       /\ (status = "returned"
             => /\ Len(forward_calls) = CeilDiv(D, batch_size)
                /\ Flatten(forward_calls) = data.instances)

C9_Witness ==
    /\ SizedDatasetCall /\ status = "returned"
    /\ D = 5 /\ batch_size = 2
    /\ Len(forward_calls) = 3 /\ Len(forward_calls[3]) = 1

\* C10: with batch_size <= 0 the dataset call processes nothing; batch_size = 0
\* fails before any predictor or model operation, batch_size < 0 returns the
\* empty map without error, also for a non-empty dataset.
C10_NonPositiveBatchSize ==
    (op = "dataset" /\ batch_size <= 0)
    => /\ forward_calls = <<>>
       /\ p2l_calls = <<>>
       /\ interpret_calls = <<>>
       /\ json_calls = 0
       /\ (batch_size = 0 => Finished /\ status = "raised" /\ result = EmptyMap)
       /\ (batch_size = 0 /\ data.sized => error = Exc("range", "ValueError"))
       /\ (batch_size < 0 /\ data.sized
             => /\ status # "raised"
                /\ error = NoError
                /\ (Finished => status = "returned" /\ result = EmptyMap))

C10_Witness ==
    /\ op = "dataset" /\ batch_size < 0 /\ data.sized
    /\ D >= 1
    /\ status = "returned" /\ result = EmptyMap

====
